---- MODULE Spec2Model ----
(***************************************************************************)
(* ibooks-highlights-export: one run of main() as a step machine over the  *)
(* annotation database, the last_sync file and standard output.            *)
(*                                                                         *)
(* Conventions.                                                            *)
(*   Option<T>        None is <<>>, Some(x) is <<x>>.                      *)
(*   SQL values       a column value is an Option (NULL is <<>>); a SQL    *)
(*                    truth value is "T", "F" or "U" (unknown).            *)
(*   ZFUTUREPROOFING6 a REAL column, kept in half seconds (3 is 1.5 s),    *)
(*                    so that round() and `as i64` are not the identity.   *)
(*   DateTime<Utc>    whole Unix seconds.                                  *)
(***************************************************************************)
EXTENDS Integers, Sequences, FiniteSets, TLC

\* 2001-01-01T00:00:00Z in Unix seconds (core_data_to_timestamp, timestamp_to_core_data)
CoreDataOffset == 978307200

\* bound: how many rows ZAEANNOTATION may hold
MaxRows == 2

None == <<>>
Some(x) == <<x>>
IsSome(o) == o # <<>>
Unwrap(o) == o[1]

Range(s) == {s[i] : i \in 1..Len(s)}

----------------------------------------------------------------------------
(* Epoch conversion                                                        *)

core_data_to_timestamp(ts) == ts + CoreDataOffset

timestamp_to_core_data(ts) == ts - CoreDataOffset

----------------------------------------------------------------------------
(* RFC 3339 text of a DateTime<Utc>: <<year, month, day, hour, minute,     *)
(* second, offset minutes>>, i.e. "YYYY-MM-DDTHH:MM:SS+00:00".             *)

DaysFromCivil(y, m, d) ==
    LET yy  == IF m <= 2 THEN y - 1 ELSE y
        era == yy \div 400
        yoe == yy - era * 400
        mp  == IF m > 2 THEN m - 3 ELSE m + 9
        doy == (153 * mp + 2) \div 5 + d - 1
        doe == yoe * 365 + yoe \div 4 - yoe \div 100 + doy
    IN  era * 146097 + doe - 719468

CivilFromDays(days) ==
    LET z   == days + 719468
        era == z \div 146097
        doe == z - era * 146097
        yoe == (doe - doe \div 1460 + doe \div 36524 - doe \div 146096) \div 365
        doy == doe - (365 * yoe + yoe \div 4 - yoe \div 100)
        mp  == (5 * doy + 2) \div 153
        d   == doy - (153 * mp + 2) \div 5 + 1
        m   == IF mp < 10 THEN mp + 3 ELSE mp - 9
        y   == yoe + era * 400 + (IF m <= 2 THEN 1 ELSE 0)
    IN  <<y, m, d>>

to_rfc3339(ts) ==
    LET days == ts \div 86400
        sod  == ts % 86400
        ymd  == CivilFromDays(days)
    IN  <<ymd[1], ymd[2], ymd[3], sod \div 3600, (sod % 3600) \div 60, sod % 60, 0>>

DaysInMonth(y, m) ==
    IF m = 2
    THEN (IF (y % 4 = 0 /\ y % 100 # 0) \/ y % 400 = 0 THEN 29 ELSE 28)
    ELSE (IF m \in {4, 6, 9, 11} THEN 30 ELSE 31)

\* DateTime::parse_from_rfc3339(..).with_timezone(&Utc): None when the text is
\* not a complete, in-range date-time with an offset
parse_from_rfc3339(text) ==
    IF Len(text) # 7 THEN None
    ELSE LET y == text[1]  mo == text[2]  d == text[3]
             h == text[4]  mi == text[5]  s == text[6]  off == text[7]
         IN  IF /\ mo \in 1..12 /\ d >= 1 /\ d <= DaysInMonth(y, mo)
                /\ h \in 0..23 /\ mi \in 0..59 /\ s \in 0..59
             THEN Some(DaysFromCivil(y, mo, d) * 86400 + h * 3600 + mi * 60 + s
                       - off * 60)
             ELSE None

----------------------------------------------------------------------------
(* SQL: three-valued logic and the functions the query uses                *)

SqlNot(a) == IF a = "U" THEN "U" ELSE IF a = "T" THEN "F" ELSE "T"

SqlAnd(a, b) ==
    IF a = "F" \/ b = "F" THEN "F" ELSE IF a = "T" /\ b = "T" THEN "T" ELSE "U"

SqlOr(a, b) ==
    IF a = "T" \/ b = "T" THEN "T" ELSE IF a = "F" /\ b = "F" THEN "F" ELSE "U"

SqlIsNull(v) == IF v = None THEN "T" ELSE "F"

SqlEq(v, w) ==
    IF v = None \/ w = None THEN "U" ELSE IF Unwrap(v) = Unwrap(w) THEN "T" ELSE "F"

SqlNe(v, w) == SqlNot(SqlEq(v, w))

\* round(X) of a REAL in half seconds: the nearest integer, halves away from
\* zero, still a REAL (so still in half seconds); NULL stays NULL
SqlRound(v) ==
    IF v = None THEN None
    ELSE LET h == Unwrap(v)
         IN  Some(IF h >= 0 THEN 2 * ((h + 1) \div 2) ELSE -2 * ((1 - h) \div 2))

\* REAL column (half seconds) > INTEGER parameter (seconds)
SqlGtParam(v, param) ==
    IF v = None THEN "U" ELSE IF Unwrap(v) > 2 * param THEN "T" ELSE "F"

\* `ts as i64` of an f64 held in half seconds: truncation toward zero
AsI64(h) == IF h >= 0 THEN h \div 2 ELSE -((-h) \div 2)

----------------------------------------------------------------------------
(* The two databases                                                       *)

\* ZBKLIBRARYASSET of the attached library database
ZBKLIBRARYASSET ==
    { [ZASSETID |-> Some("b1"), ZTITLE |-> Some("Dune")],
      [ZASSETID |-> Some("b2"), ZTITLE |-> Some("Emma")],
      [ZASSETID |-> Some("b3"), ZTITLE |-> None] }

Row(pk, text, note, time, asset) ==
    [Z_PK |-> pk, ZANNOTATIONSELECTEDTEXT |-> text, ZANNOTATIONNOTE |-> note,
     ZFUTUREPROOFING6 |-> time, ZANNOTATIONASSETID |-> asset]

\* the rows ZAEANNOTATION may come to hold (times in half seconds since 2001)
AnnotationPool ==
    { Row(1, Some("t1"), None,              Some(2),  Some("b1")),
      Row(2, Some("t2"), Some("good line"), Some(5),  Some("b1")),
      Row(3, Some("t3"), None,              Some(1),  Some("b2")),
      Row(4, Some("t4"), None,              Some(-3), Some("b2")),
      Row(5, None,       Some("n5"),        Some(6),  Some("b1")),
      Row(6, Some("t6"), Some(""),          Some(6),  Some("b1")),
      Row(7, Some("t7"), None,              Some(4),  Some("b9")),
      Row(8, Some("t8"), None,              Some(-2 * CoreDataOffset), Some("b1")),
      Row(9, Some("t9"), None,              Some(7),  Some("b3")) }

----------------------------------------------------------------------------
(* read_annotations                                                        *)

\* ... from ZAEANNOTATION a inner join ZBKLIBRARYASSET l
\*     ON l.ZASSETID = a.ZANNOTATIONASSETID
JoinRows(table) ==
    { jr \in [a : table, l : ZBKLIBRARYASSET] :
        SqlEq(jr.l.ZASSETID, jr.a.ZANNOTATIONASSETID) = "T" }

\* the time part of the WHERE clause: round(a.ZFUTUREPROOFING6) > ?
WhereTimeUnrounded(a, param) == SqlGtParam(a.ZFUTUREPROOFING6, param)
WhereTimeInclusive(a, param) ==
    SqlOr(SqlGtParam(SqlRound(a.ZFUTUREPROOFING6), param),
          SqlEq(SqlRound(a.ZFUTUREPROOFING6), Some(2 * param)))
WhereTime(a, param) == SqlGtParam(SqlRound(a.ZFUTUREPROOFING6), param)

\* the text and note part of the WHERE clause
WhereContentNoTextTest(a) ==
    SqlOr(SqlNe(a.ZANNOTATIONNOTE, Some("")), SqlIsNull(a.ZANNOTATIONNOTE))
WhereContent(a) ==
    SqlAnd(SqlNot(SqlIsNull(a.ZANNOTATIONSELECTEDTEXT)),
           SqlOr(SqlNe(a.ZANNOTATIONNOTE, Some("")), SqlIsNull(a.ZANNOTATIONNOTE)))

Where(a, param) == SqlAnd(WhereContent(a), WhereTime(a, param))

\* the bound parameter: created_after.map(|t| t.timestamp()).unwrap_or(0),
\* then timestamp_to_core_data
QueryParam(created_after) ==
    timestamp_to_core_data(IF IsSome(created_after) THEN Unwrap(created_after) ELSE 0)

Selected(table, created_after) ==
    { jr \in JoinRows(table) : Where(jr.a, QueryParam(created_after)) = "T" }

\* ORDER BY a.ZFUTUREPROOFING6: every order of the rows that ascends in the
\* stored (unrounded) column; rows with equal values come in any order
OrderBy(rows) ==
    { s \in [1..Cardinality(rows) -> rows] :
        /\ \A i, j \in 1..Cardinality(rows) : i # j => s[i] # s[j]
        /\ \A i, j \in 1..Cardinality(rows) :
              i < j => Unwrap(s[i].a.ZFUTUREPROOFING6) <= Unwrap(s[j].a.ZFUTUREPROOFING6) }

\* the row closure of query_map: the third column is round(a.ZFUTUREPROOFING6);
\* ZTITLE is read as a String, so a NULL title is an error.  The field `row`
\* is the primary key of the source row, kept to tell annotations apart.
RowDecodes(jr) == jr.l.ZTITLE # None

MapRow(jr) ==
    [row            |-> jr.a.Z_PK,
     selected_text  |-> jr.a.ZANNOTATIONSELECTEDTEXT,
     note           |-> jr.a.ZANNOTATIONNOTE,
     anotation_time |-> core_data_to_timestamp(AsI64(Unwrap(SqlRound(jr.a.ZFUTUREPROOFING6)))),
     book_title     |-> Unwrap(jr.l.ZTITLE)]

\* the results read_annotations can return once the connection is open:
\* all rows decoded, or the first decoding error and no rows
read_annotations(table, created_after) ==
    { IF \A i \in 1..Len(s) : RowDecodes(s[i])
      THEN <<"Ok", [i \in 1..Len(s) |-> MapRow(s[i])]>>
      ELSE <<"Err", "ContextProcessingAnnotation">> :
      s \in OrderBy(Selected(table, created_after)) }

----------------------------------------------------------------------------
(* LastSyncFile.  The file is one of                                       *)
(*   <<"absent">>        no such file                                      *)
(*   <<"inaccessible">>  it exists, but its metadata cannot be read (its   *)
(*                       directory denies search permission)               *)
(*   <<"unreadable">>    it exists and cannot be opened                    *)
(*   <<"bytes">>         it holds bytes that are not UTF-8                 *)
(*   <<"text", t>>       it holds the text t (RFC 3339 fields, or a prefix)*)

\* Path::exists(): false as well when the metadata cannot be read
PathExists(file) == file[1] \notin {"absent", "inaccessible"}

LastSyncFile_read(file) ==
    IF ~PathExists(file) THEN <<"Ok", None>>
    ELSE IF file[1] = "unreadable" THEN <<"Err", "UnableToReadSyncFile">>
    ELSE IF file[1] = "bytes" THEN <<"Err", "FromUtf8Error">>
    ELSE IF parse_from_rfc3339(file[2]) = None THEN <<"Err", "ParseError">>
    ELSE <<"Ok", parse_from_rfc3339(file[2])>>

\* fs::write(path, ts.to_rfc3339()): the outcomes <<result, file afterwards>>.
\* It creates or truncates the file and then writes; it fails with the file
\* untouched when the file cannot be opened, and with a prefix of the text in
\* it when the write fails after the file was truncated.
LastSyncFile_update(file, ts) ==
    LET text == to_rfc3339(ts)
    IN  {<<"Err", file>>}
        \cup (IF file[1] \in {"inaccessible", "unreadable"} THEN {}
              ELSE {<<"Ok", <<"text", text>>>>}
                   \cup {<<"Err", <<"text", SubSeq(text, 1, k)>>>> : k \in {0, 3}})

----------------------------------------------------------------------------
(* locate_database.  A directory is <<"absent">>, <<"unreadable">> or      *)
(* <<"dir", es>>, es the extensions of its entries in read_dir order       *)
(* ("?" is an entry whose read fails).                                     *)

RECURSIVE ScanDir(_, _)
ScanDir(es, i) ==
    IF i > Len(es) THEN <<"Ok", None>>
    ELSE IF es[i] = "?" THEN <<"Err", "io::Error">>
    ELSE IF es[i] = "sqlite" THEN <<"Ok", Some(i)>>
    ELSE ScanDir(es, i + 1)

locate_database(home, dir) ==
    IF ~home THEN <<"Err", "NoHomeDir">>
    ELSE IF dir[1] # "dir" THEN <<"Err", "io::Error">>
    ELSE ScanDir(dir[2], 1)

\* main, lines 69-71: both lookups, then zip and ok_or(NoDbFound)
LocateBoth(home, adir, ldir) ==
    LET a == locate_database(home, adir)
        l == locate_database(home, ldir)
    IN  IF a[1] = "Err" THEN a
        ELSE IF l[1] = "Err" THEN l
        ELSE IF IsSome(a[2]) /\ IsSome(l[2]) THEN <<"Ok", <<Unwrap(a[2]), Unwrap(l[2])>>>>
        ELSE <<"Err", "NoDbFound">>

Dirs ==
    { <<"absent">>, <<"unreadable">>, <<"dir", <<>>>>, <<"dir", <<"txt">>>>,
      <<"dir", <<"txt", "sqlite">>>>, <<"dir", <<"?", "sqlite">>>> }

----------------------------------------------------------------------------
(* format                                                                  *)

\* Logseq::fmt, the first loop: entry(book_title).or_insert_with(Vec::new).push(a)
PushFront(groups, a) ==
    IF a.book_title \in DOMAIN groups
    THEN [groups EXCEPT ![a.book_title] = <<a>> \o @]
    ELSE [k \in DOMAIN groups \cup {a.book_title} |->
            IF k = a.book_title THEN <<a>> ELSE groups[k]]
Push(groups, a) ==
    IF a.book_title \in DOMAIN groups
    THEN [groups EXCEPT ![a.book_title] = Append(@, a)]
    ELSE [k \in DOMAIN groups \cup {a.book_title} |->
            IF k = a.book_title THEN <<a>> ELSE groups[k]]

RECURSIVE GroupFrom(_, _, _)
GroupFrom(groups, annotations, i) ==
    IF i > Len(annotations) THEN groups
    ELSE GroupFrom(Push(groups, annotations[i]), annotations, i + 1)

EmptyMap == [k \in {} |-> <<>>]

GroupByBook(annotations) == GroupFrom(EmptyMap, annotations, 1)

\* the lines of one annotation
LogseqLines(a) ==
    LET text == IF IsSome(a.selected_text) THEN Unwrap(a.selected_text) ELSE "-"
    IN  IF IsSome(a.note)
        THEN << <<"\t\t- ", Unwrap(a.note)>>, <<"\t\t\t- > ", text>> >>
        ELSE << <<"\t\t- > ", text>> >>

RECURSIVE ConcatLines(_, _)
ConcatLines(as, i) ==
    IF i > Len(as) THEN <<>> ELSE LogseqLines(as[i]) \o ConcatLines(as, i + 1)

RECURSIVE LogseqBooks(_, _, _)
LogseqBooks(groups, order, i) ==
    IF i > Len(order) THEN <<>>
    ELSE << <<"- [[", order[i], "]]">> >> \o ConcatLines(groups[order[i]], 1)
         \o LogseqBooks(groups, order, i + 1)

\* the orders in which a HashMap may hand out its keys
KeyOrders(groups) ==
    { o \in [1..Cardinality(DOMAIN groups) -> DOMAIN groups] :
        \A i, j \in 1..Cardinality(DOMAIN groups) : i # j => o[i] # o[j] }

\* println!("{}", format::Logseq(annotations)): the lines, then the newline
LogseqOutputs(annotations) ==
    { LogseqBooks(GroupByBook(annotations), o, 1) \o << <<"">> >> :
        o \in KeyOrders(GroupByBook(annotations)) }

\* serde: the note field is skipped when it is None
JsonRecord(a) ==
    IF IsSome(a.note)
    THEN [selected_text |-> a.selected_text, note |-> Unwrap(a.note),
          anotation_time |-> to_rfc3339(a.anotation_time), book_title |-> a.book_title]
    ELSE [selected_text |-> a.selected_text,
          anotation_time |-> to_rfc3339(a.anotation_time), book_title |-> a.book_title]

JsonOutput(annotations) ==
    << <<"json", [i \in 1..Len(annotations) |-> JsonRecord(annotations[i])]>> >>

HasText(a) == IsSome(a.selected_text)

TableCells(a) == <<a.book_title, a.anotation_time, Unwrap(a.selected_text)>>

TableOutput(annotations) ==
    LET rows == SelectSeq(annotations, HasText)
    IN  << <<"table", [i \in 1..Len(rows) |-> TableCells(rows[i])]>> >>

\* main, lines 89-95
Outputs(args, annotations) ==
    IF args.json THEN {JsonOutput(annotations)}
    ELSE IF args.table THEN {TableOutput(annotations)}
    ELSE LogseqOutputs(annotations)

----------------------------------------------------------------------------
(* main: the decisions                                                     *)

\* lines 79-83: the result of the `if args.all` expression before `?`
StoredLastSync(args, file) == LastSyncFile_read(file)
EffectiveLastSync(args, file) ==
    IF args.all THEN <<"Ok", None>> ELSE LastSyncFile_read(file)

RECURSIVE MaxTime(_, _)
MaxTime(annotations, i) ==
    IF i = Len(annotations) THEN annotations[i].anotation_time
    ELSE LET rest == MaxTime(annotations, i + 1)
         IN  IF annotations[i].anotation_time > rest
             THEN annotations[i].anotation_time ELSE rest

RECURSIVE MinTime(_, _)
MinTime(annotations, i) ==
    IF i = Len(annotations) THEN annotations[i].anotation_time
    ELSE LET rest == MinTime(annotations, i + 1)
         IN  IF annotations[i].anotation_time < rest
             THEN annotations[i].anotation_time ELSE rest

\* line 87: annotations.iter().map(|a| a.anotation_time).max()
NewLastSyncTimeFirst(annotations) ==
    IF annotations = <<>> THEN None ELSE Some(annotations[1].anotation_time)
NewLastSyncTimeMin(annotations) ==
    IF annotations = <<>> THEN None ELSE Some(MinTime(annotations, 1))
NewLastSyncTime(annotations) ==
    IF annotations = <<>> THEN None ELSE Some(MaxTime(annotations, 1))

\* lines 97-98: whether the file is written
ShouldUpdateAlways(args, time) == IsSome(time)
ShouldUpdate(args, time) == args.update /\ IsSome(time)

----------------------------------------------------------------------------
(* The state                                                               *)

VARIABLES
    ZAEANNOTATION,        \* the annotation table (written by the reader application)
    syncFile,             \* the last_sync file
    pc,                   \* where main is: "idle" between runs
    args,                 \* Args of the run
    last_sync,            \* main's last_sync
    annotations,          \* main's annotations
    new_last_sync_time,   \* main's new_last_sync_time
    annotations_by_book,  \* Logseq::fmt's map
    stdout,               \* the lines printed by the run
    err,                  \* the error the run ended with, "" when none
    lookups,              \* what the two lookups of a run that failed to locate returned
    fileAtStart,          \* history: syncFile when the run started
    writes,               \* history: calls of fs::write in the run
    rendered,             \* history: rows printed by earlier incremental updating runs
    persisted,            \* history: those of them whose run then wrote the file
    lastWritten,          \* history: the time last written to the file, 0 when none
    settled,              \* history: the last run was a completed incremental updating
                          \*   run and no row was added since its query
    addedSinceQuery,      \* history: a row was added since the run's query
    follows               \* history: settled, as it was at the run's query

vars ==
    <<ZAEANNOTATION, syncFile, pc, args, last_sync, annotations, new_last_sync_time,
      annotations_by_book, stdout, err, lookups, fileAtStart, writes, rendered,
      persisted, lastWritten, settled, addedSinceQuery, follows>>

env == <<ZAEANNOTATION, syncFile>>
locals == <<last_sync, annotations, new_last_sync_time, annotations_by_book, stdout>>
history == <<rendered, persisted, lastWritten, settled, addedSinceQuery, follows>>

Args == [update : BOOLEAN, json : BOOLEAN, table : BOOLEAN, all : BOOLEAN]

NoArgs == [update |-> FALSE, json |-> FALSE, table |-> FALSE, all |-> FALSE]

\* the file before the program has ever written it
InitialFiles == {<<"absent">>, <<"inaccessible">>, <<"unreadable">>, <<"bytes">>}

Init ==
    /\ ZAEANNOTATION = {}
    /\ syncFile \in InitialFiles
    /\ pc = "idle"
    /\ args = NoArgs
    /\ last_sync = None
    /\ annotations = <<>>
    /\ new_last_sync_time = None
    /\ annotations_by_book = EmptyMap
    /\ stdout = <<>>
    /\ err = ""
    /\ lookups = <<>>
    /\ fileAtStart = syncFile
    /\ writes = 0
    /\ rendered = {}
    /\ persisted = {}
    /\ lastWritten = 0
    /\ settled = FALSE
    /\ addedSinceQuery = FALSE
    /\ follows = FALSE

----------------------------------------------------------------------------
(* The reader application adds an annotation                               *)

AddAnnotation ==
    /\ Cardinality(ZAEANNOTATION) < MaxRows
    /\ \E r \in AnnotationPool \ ZAEANNOTATION : ZAEANNOTATION' = ZAEANNOTATION \cup {r}
    /\ settled' = FALSE
    /\ addedSinceQuery' = TRUE
    /\ UNCHANGED <<syncFile, pc, args, locals, err, lookups, fileAtStart, writes,
                   rendered, persisted, lastWritten, follows>>

----------------------------------------------------------------------------
(* main                                                                    *)

Abort(e) ==
    /\ pc' = "aborted"
    /\ err' = e

\* line 67: Args::parse()
Start ==
    /\ pc = "idle"
    /\ \E a \in Args : args' = a
    /\ pc' = "locate"
    /\ fileAtStart' = syncFile
    /\ UNCHANGED <<env, locals, err, lookups, writes, history>>

\* the directories a run looks at: without a home directory none, and after
\* an error of the first lookup not the second
Consulted(home, adir, ldir) ==
    IF ~home THEN <<home>>
    ELSE IF locate_database(home, adir)[1] = "Err" THEN <<home, adir>>
    ELSE <<home, adir, ldir>>

\* lines 69-71
Locate ==
    /\ pc = "locate"
    /\ \E home \in BOOLEAN, adir \in Dirs, ldir \in Dirs :
         LET r == LocateBoth(home, adir, ldir)
         IN  IF r[1] = "Err"
             THEN /\ Abort(r[2])
                  /\ lookups' = Consulted(home, adir, ldir)
             ELSE /\ pc' = "find"
                  /\ UNCHANGED <<err, lookups>>
    /\ UNCHANGED <<env, args, locals, fileAtStart, writes, history>>

\* line 76: LastSyncFile::find()
Find ==
    /\ pc = "find"
    /\ \E r \in {"Ok", "UnableToFindProgramLocation", "io::Error"} :
         IF r = "Ok" THEN pc' = "read" /\ UNCHANGED err ELSE Abort(r)
    /\ UNCHANGED <<env, args, locals, lookups, fileAtStart, writes, history>>

\* lines 79-83
ReadLastSync ==
    /\ pc = "read"
    /\ LET r == EffectiveLastSync(args, syncFile)
       IN  IF r[1] = "Err"
           THEN Abort(r[2]) /\ UNCHANGED last_sync
           ELSE /\ last_sync' = r[2]
                /\ pc' = "query"
                /\ UNCHANGED err
    /\ UNCHANGED <<env, args, annotations, new_last_sync_time, annotations_by_book,
                   stdout, lookups, fileAtStart, writes, history>>

\* lines 86-87
ReadAnnotations ==
    /\ pc = "query"
    /\ \E opened \in BOOLEAN, r \in read_annotations(ZAEANNOTATION, last_sync) :
         IF ~opened
         THEN Abort("rusqlite::Error") /\ UNCHANGED <<annotations, new_last_sync_time>>
         ELSE IF r[1] = "Err"
         THEN Abort(r[2]) /\ UNCHANGED <<annotations, new_last_sync_time>>
         ELSE /\ annotations' = r[2]
              /\ new_last_sync_time' = NewLastSyncTime(r[2])
              /\ pc' = "render"
              /\ UNCHANGED err
    /\ addedSinceQuery' = FALSE
    /\ follows' = settled
    /\ UNCHANGED <<env, args, last_sync, annotations_by_book, stdout, lookups,
                   fileAtStart, writes, rendered, persisted, lastWritten, settled>>

\* lines 89-95: println! panics when standard output cannot be written
Render ==
    /\ pc = "render"
    /\ \E printed \in BOOLEAN, out \in Outputs(args, annotations) :
         IF printed
         THEN /\ stdout' = out
              /\ annotations_by_book' =
                    IF args.json \/ args.table THEN EmptyMap ELSE GroupByBook(annotations)
              /\ pc' = "update"
              /\ UNCHANGED err
         ELSE /\ Abort("panic")
              /\ UNCHANGED <<stdout, annotations_by_book>>
    /\ UNCHANGED <<env, args, last_sync, annotations, new_last_sync_time, lookups,
                   fileAtStart, writes, history>>

\* lines 97-104
Update ==
    /\ pc = "update"
    /\ IF ShouldUpdate(args, new_last_sync_time)
       THEN \E o \in LastSyncFile_update(syncFile, Unwrap(new_last_sync_time)) :
              /\ syncFile' = o[2]
              /\ writes' = writes + 1
              /\ IF o[1] = "Ok"
                 THEN /\ pc' = "done"
                      /\ lastWritten' = Unwrap(new_last_sync_time)
                      /\ UNCHANGED err
                 ELSE /\ Abort("UnableToWriteSyncFile")
                      /\ UNCHANGED lastWritten
       ELSE /\ pc' = "done"
            /\ UNCHANGED <<syncFile, writes, lastWritten, err>>
    /\ UNCHANGED <<ZAEANNOTATION, args, locals, lookups, fileAtStart, rendered,
                   persisted, settled, addedSinceQuery, follows>>

Rows(as) == {as[i].row : i \in 1..Len(as)}

\* the process ends
Exit ==
    /\ pc \in {"done", "aborted"}
    /\ pc' = "idle"
    /\ rendered' = IF ~args.all /\ args.update /\ stdout # <<>>
                   THEN rendered \cup Rows(annotations) ELSE rendered
    /\ persisted' = IF ~args.all /\ args.update /\ pc = "done"
                    THEN persisted \cup Rows(annotations) ELSE persisted
    /\ settled' = (pc = "done" /\ ~args.all /\ args.update /\ ~addedSinceQuery)
    /\ addedSinceQuery' = FALSE
    /\ follows' = FALSE
    /\ args' = NoArgs
    /\ last_sync' = None
    /\ annotations' = <<>>
    /\ new_last_sync_time' = None
    /\ annotations_by_book' = EmptyMap
    /\ stdout' = <<>>
    /\ err' = ""
    /\ lookups' = <<>>
    /\ fileAtStart' = syncFile
    /\ writes' = 0
    /\ UNCHANGED <<env, lastWritten>>

Next ==
    \/ AddAnnotation
    \/ Start
    \/ Locate
    \/ Find
    \/ ReadLastSync
    \/ ReadAnnotations
    \/ Render
    \/ Update
    \/ Exit

Spec == Init /\ [][Next]_vars

----------------------------------------------------------------------------
(* Properties                                                              *)

Incremental == ~args.all
Updating == args.update
PastRead == pc \in {"query", "render", "update", "done"}
Printed == stdout # <<>>
Times(as) == {as[i].anotation_time : i \in 1..Len(as)}
IsMaxOf(t, as) == t \in Times(as) /\ \A u \in Times(as) : u <= t
FileTime(file) == Unwrap(LastSyncFile_read(file)[2])
HoldsTime(file) == LastSyncFile_read(file)[1] = "Ok" /\ IsSome(LastSyncFile_read(file)[2])

\* C1: when a run with marker updates enabled returned a non-empty result set
\* and its write of the file succeeded, the file reads back as the greatest
\* anotation_time of that result set, whatever the file held before and
\* whether or not the run was a rescan of everything.
C1_MarkerIsMax ==
    (pc = "done" /\ Updating /\ annotations # <<>>)
        => /\ HoldsTime(syncFile)
           /\ IsMaxOf(FileTime(syncFile), annotations)

C1_Witness ==
    /\ pc = "done" /\ Updating /\ args.all
    /\ HoldsTime(fileAtStart)
    /\ Cardinality(Times(annotations)) >= 2
    /\ annotations[1].anotation_time < FileTime(syncFile)

\* C2: an incremental updating run that follows a completed incremental
\* updating run, with no row added since that run's query, returns nothing
\* and leaves the file as it was.
C2_EmptyDelta ==
    (pc = "done" /\ Incremental /\ Updating /\ follows)
        => annotations = <<>> /\ syncFile = fileAtStart

C2_Witness ==
    /\ pc = "done" /\ Incremental /\ Updating /\ follows
    /\ HoldsTime(syncFile)
    /\ \E r \in ZAEANNOTATION :
         /\ r.Z_PK \in persisted
         /\ Unwrap(r.ZFUTUREPROOFING6) % 2 = 1

\* C3 as stated: an incremental updating run prints no row that an earlier
\* incremental updating run printed.
C3_AtMostOnce ==
    (Printed /\ Incremental /\ Updating) => Rows(annotations) \cap rendered = {}

\* C3 as amended: an incremental updating run prints no row that an earlier
\* incremental updating run printed and then recorded by a successful write
\* of the file.
C3_AtMostOncePersisted ==
    (Printed /\ Incremental /\ Updating) => Rows(annotations) \cap persisted = {}

C3_Witness ==
    /\ pc = "done" /\ Incremental /\ Updating /\ annotations # <<>>
    /\ \E r \in ZAEANNOTATION : r.Z_PK \in persisted
    /\ Rows(annotations) \cap persisted = {}

\* C4: a run calls fs::write at most once, only after the output was printed
\* and as its last step, and exactly when it reaches that step with --update
\* and a non-empty result set; a run that does not call it leaves the file as
\* it found it.
C4_WriteOnceLast ==
    /\ writes <= 1
    /\ writes = 1 => pc \in {"done", "aborted"} /\ Printed /\ Updating /\ annotations # <<>>
    /\ (pc = "done" /\ Updating /\ annotations # <<>>) => writes = 1
    /\ (pc # "idle" /\ writes = 0) => syncFile = fileAtStart

C4_Witness ==
    /\ pc = "done" /\ writes = 1 /\ Printed
    /\ syncFile # fileAtStart /\ HoldsTime(fileAtStart)

\* what C5 says of a row: it is joined, has text, has no note or a non-empty
\* one, and its time as the reader reports it (core-data seconds) exceeds t
C5_Kept(r, t) ==
    /\ \E l \in ZBKLIBRARYASSET : l.ZASSETID = r.ZANNOTATIONASSETID
    /\ r.ZANNOTATIONSELECTEDTEXT # None
    /\ (r.ZANNOTATIONNOTE = None \/ r.ZANNOTATIONNOTE # Some(""))
    /\ AsI64(Unwrap(SqlRound(r.ZFUTUREPROOFING6))) > t

\* C5 as stated: a successful read returns exactly the kept rows, the
\* threshold being `since` in core-data seconds, and 0 when `since` is absent.
C5_ExactRowsZero ==
    [][(pc = "query" /\ pc' = "render")
         => Rows(annotations') =
              {r.Z_PK : r \in {q \in ZAEANNOTATION :
                 C5_Kept(q, IF IsSome(last_sync) THEN Unwrap(last_sync) - CoreDataOffset
                            ELSE 0)}}]_vars

\* C5 as amended: ... and Unix time 0 in core-data seconds, -978307200, when
\* `since` is absent.
C5_ExactRows ==
    [][(pc = "query" /\ pc' = "render")
         => Rows(annotations') =
              {r.Z_PK : r \in {q \in ZAEANNOTATION :
                 C5_Kept(q, IF IsSome(last_sync) THEN Unwrap(last_sync) - CoreDataOffset
                            ELSE 0 - CoreDataOffset)}}]_vars

C5_Witness ==
    /\ pc = "render" /\ last_sync = None
    /\ \E i \in 1..Len(annotations) : annotations[i].anotation_time <= CoreDataOffset
    /\ \E r \in ZAEANNOTATION : r.Z_PK \notin Rows(annotations)

\* C6: a run with -a returns the rows a run without a last_sync file returns,
\* whatever the file holds.
C6_RescanIgnoresMarker ==
    [][(pc = "query" /\ pc' = "render" /\ args.all)
         => Rows(annotations') = {jr.a.Z_PK : jr \in Selected(ZAEANNOTATION, None)}]_vars

C6_Witness ==
    /\ pc = "render" /\ args.all
    /\ HoldsTime(fileAtStart)
    /\ \E i \in 1..Len(annotations) : annotations[i].anotation_time <= FileTime(fileAtStart)

\* C7: an incremental run gets past the read of the file only when the file
\* is absent (and then with no `since`) or holds a time; a file that exists
\* and cannot be read or parsed ends the run there, with nothing printed and
\* the file untouched.
C7_BadMarkerAborts ==
    Incremental =>
        /\ (fileAtStart # <<"absent">> /\ ~HoldsTime(fileAtStart)
              /\ pc \notin {"idle", "locate", "find", "read"})
             => pc = "aborted" /\ ~Printed /\ annotations = <<>> /\ syncFile = fileAtStart
        /\ (PastRead /\ last_sync = None) => fileAtStart = <<"absent">>

\* the lookup of a directory is "not found" in the sense of C8
C8_NotFound(dir) ==
    dir[1] \in {"absent", "unreadable"} \/ (dir[1] = "dir" /\ "sqlite" \notin Range(dir[2]))

\* C8: when a lookup is "not found" (no file with the extension, or the
\* directory absent or unreadable), the run ends with NoDbFound before the
\* file is read, a query is run or anything is printed.
C8_NotFoundAborts ==
    (pc = "aborted" /\ \E i \in 2..Len(lookups) : C8_NotFound(lookups[i]))
        => err = "NoDbFound" /\ ~Printed /\ annotations = <<>> /\ syncFile = fileAtStart

\* C9: the map of Logseq::fmt has exactly the book titles of the annotations
\* as keys, and under each title exactly the annotations of that title in
\* the order of the list, which ascends in anotation_time.
C9_Grouping ==
    (pc = "update" /\ ~args.json /\ ~args.table)
        => /\ DOMAIN annotations_by_book = {annotations[i].book_title : i \in 1..Len(annotations)}
           /\ \A k \in DOMAIN annotations_by_book :
                LET OfBook(a) == a.book_title = k
                    g == annotations_by_book[k]
                IN  /\ g = SelectSeq(annotations, OfBook)
                    /\ \A i, j \in 1..Len(g) :
                         i < j => g[i].anotation_time <= g[j].anotation_time

C9_Witness ==
    /\ pc = "update" /\ ~args.json /\ ~args.table
    /\ \E k \in DOMAIN annotations_by_book :
         /\ Len(annotations_by_book[k]) >= 2
         /\ annotations_by_book[k][1].anotation_time < annotations_by_book[k][2].anotation_time

\* C10: a time written to the file is never below the time written before
\* it, and an incremental run that writes the file writes a time above the
\* one it read.
C10_MarkerMonotone ==
    [][(pc = "update" /\ pc' = "done" /\ writes' = writes + 1)
         => /\ HoldsTime(syncFile')
            /\ FileTime(syncFile') >= lastWritten
            /\ (Incremental /\ IsSome(last_sync)) => FileTime(syncFile') > Unwrap(last_sync)]_vars

C10_Witness ==
    /\ pc = "done" /\ writes = 1 /\ Incremental
    /\ IsSome(last_sync) /\ HoldsTime(syncFile)
    /\ FileTime(syncFile) > Unwrap(last_sync)

====
